---- MODULE Spec2Model ----
(***************************************************************************)
(* A model of mailsense: configuration resolution, authentication and      *)
(* model selection (EmailClassifier.__init__), the operations of the       *)
(* Gmail client (fetch_emails, list_labels, apply_label,                   *)
(* get_message_content), of the LLM processor (summarize_emails,           *)
(* classify_emails) and of GmailLabels (update_labels), and the            *)
(* command-line parser.                                                    *)
(*                                                                         *)
(* EmailClassifier.__init__ raises on every input: at the latest the       *)
(* TypeError of LLMProcessor(provider=..., model_config=...), whose        *)
(* constructor takes one parameter, args. No behaviour therefore holds an  *)
(* EmailClassifier, and EmailClassifier.run is never entered; the          *)
(* operations of the client and of the processor are followed as called    *)
(* on a client and on a processor.                                         *)
(*                                                                         *)
(* Python values are modelled as follows.                                  *)
(*   - an attribute of the args namespace is Absent (no such attribute),   *)
(*     None, or Val(v);                                                    *)
(*   - a label name or a model response is a sequence of one-character     *)
(*     strings, so that strip(), upper() and lower() are computed;         *)
(*   - every call to the mailbox, the model or the file system takes its   *)
(*     outcome (success or exception) as an input of the action.           *)
(***************************************************************************)
EXTENDS Integers, Sequences, FiniteSets, TLC

VARIABLES
    config,           \* Config(): the static defaults of config.yaml
    input,            \* the args namespace as the caller built it
    args,             \* the args namespace handed to the operation
    pc,               \* position of the program
    raised,           \* the exception that left the operation, or "none"
    raised_for,       \* the (provider, model) pair its message names, or NoPair
    mailMsgs,         \* mailbox: the messages messages().list returns
    mailLabels,       \* mailbox: its labels, a sequence of [id, name, type]
    email_info,       \* the EmailRecords of the batch
    all_labels,       \* the labels list_labels or fetch_labels returned
    classifications,  \* the (subject, label) pairs of the batch
    idx,              \* index of the next email of the current loop
    calls,            \* history: every external call, in order
    sum_outcomes,     \* history: the outcome of each summarization, by email
    lastApply         \* history: the last apply_label call and its result

vars == <<config, input, args, pc, raised, raised_for, mailMsgs, mailLabels, email_info,
          all_labels, classifications, idx,
          calls, sum_outcomes, lastApply>>

---------------------------------------------------------------------------
(* Bounds *)

\* largest number of messages the mailbox list call returns
MaxEmails == 2

\* largest number of sub-parts of a container of the payloads examined
MaxParts == 2

---------------------------------------------------------------------------
(* Python optional values *)

Absent == [k |-> "absent"]
None == [k |-> "none"]
Val(v) == [k |-> "val", v |-> v]

\* hasattr(args, f)
HasAttr(x) == x.k # "absent"

\* hasattr(args, f) and args.f is not None
HasValue(x) == x.k = "val"

---------------------------------------------------------------------------
(* Strings as sequences of characters *)

UpperChar(c) ==
    CASE c = "n" -> "N" [] c = "o" -> "O" [] c = "e" -> "E"
      [] c = "w" -> "W" [] c = "k" -> "K" [] OTHER -> c

LowerChar(c) ==
    CASE c = "N" -> "n" [] c = "O" -> "o" [] c = "E" -> "e"
      [] c = "W" -> "w" [] c = "K" -> "k" [] OTHER -> c

\* str.upper()
Upper(s) == [i \in 1..Len(s) |-> UpperChar(s[i])]

\* str.lower()
Lower(s) == [i \in 1..Len(s) |-> LowerChar(s[i])]

IsSpace(c) == c = " "

RECURSIVE LStrip(_)
LStrip(s) == IF s # <<>> /\ IsSpace(Head(s)) THEN LStrip(Tail(s)) ELSE s

RECURSIVE RStrip(_)
RStrip(s) ==
    IF s # <<>> /\ IsSpace(s[Len(s)]) THEN RStrip(SubSeq(s, 1, Len(s) - 1)) ELSE s

\* str.strip()
Strip(s) == RStrip(LStrip(s))

\* the sentinel 'NONE'
NONE == <<"N", "O", "N", "E">>

---------------------------------------------------------------------------
(* Configuration resolution: EmailClassifier._initialize_args *)

\* args.max_emails = args.max_emails or self.config.max_emails
SetMaxEmails(a, cfg) ==
    [a EXCEPT !.max_emails =
        IF HasValue(@) /\ @.v # 0 THEN @ ELSE Val(cfg.max_emails)]

\* one iteration of _set_boolean_defaults
BoolDefault(x, default) ==
    IF ~HasAttr(x) \/ x = None THEN Val(default) ELSE x

SetBooleanDefaults(a, cfg) ==
    [a EXCEPT !.dry_run = BoolDefault(@, cfg.dry_run),
              !.use_full_content = BoolDefault(@, cfg.use_full_content),
              !.print = BoolDefault(@, cfg.print_output),
              !.save_steps = BoolDefault(@, cfg.save_steps)]

has_date_from(a) == HasAttr(a.date_from) /\ a.date_from # None
has_date_to(a) == HasAttr(a.date_to) /\ a.date_to # None
has_days_old(a) == HasAttr(a.days_old) /\ a.days_old # None

\* a plausible slip: only a from-date without a to-date is rejected
DatesNotTogetherMutant(a) == has_date_from(a) /\ ~has_date_to(a)

\* the first check of _validate_date_arguments
DatesNotTogether(a) ==
    \/ (has_date_from(a) /\ ~has_date_to(a))
    \/ (~has_date_from(a) /\ has_date_to(a))

\* a plausible slip: days_old is tested for truth, so 0 counts as not given
DaysOldWithDatesMutant(a) ==
    /\ HasValue(a.days_old) /\ a.days_old.v # 0
    /\ (has_date_from(a) \/ has_date_to(a))

\* the second check of _validate_date_arguments
DaysOldWithDates(a) ==
    has_days_old(a) /\ (has_date_from(a) \/ has_date_to(a))

\* a plausible slip: the config default is never filled in
ApplyDatePriorityMutant(a, cfg) ==
    IF has_date_from(a) /\ has_date_to(a)
    THEN IF HasAttr(a.days_old) THEN [a EXCEPT !.days_old = None] ELSE a
    ELSE a

\* the priority logic of _validate_date_arguments
ApplyDatePriority(a, cfg) ==
    IF has_date_from(a) /\ has_date_to(a)
    THEN IF HasAttr(a.days_old) THEN [a EXCEPT !.days_old = None] ELSE a
    ELSE IF has_days_old(a)
         THEN a
         ELSE IF ~HasAttr(a.days_old) \/ a.days_old = None
              THEN [a EXCEPT !.days_old = Val(cfg.days_old)]
              ELSE a

\* _validate_date_arguments: the args it leaves and the exception it raises
ValidateDateArguments(a, cfg) ==
    IF DatesNotTogether(a) \/ DaysOldWithDates(a)
    THEN [args |-> a, raised |-> "ValueError"]
    ELSE [args |-> ApplyDatePriority(a, cfg), raised |-> "none"]

\* _initialize_args; max_emails is an attribute of every args namespace
InitializeArgs(a, cfg) ==
    ValidateDateArguments(SetBooleanDefaults(SetMaxEmails(a, cfg), cfg), cfg)

---------------------------------------------------------------------------
(* EmailClassifier._setup_llm_processors and Config.validate_model *)

\* no pair: the exception, if any, is not about a model selection
NoPair == [provider |-> "", model |-> ""]

\* `x or default` for a string attribute
OrDefault(x, default) == IF x = None \/ x.v = "" THEN default ELSE x.v

\* validate_model: the provider is registered and the model is one of its
\* models
ValidateModel(cfg, provider, model) ==
    /\ provider \in DOMAIN cfg.llm_providers
    /\ model \in cfg.llm_providers[provider]

\* the early return of _setup_llm_processors: a summary model is set up only
\* when full content is used
NeedsSummaryModel(a) == a.use_full_content.v

\* the parameters of LLMProcessor.__init__, self apart
LLMProcessorParams == {"args"}

\* LLMProcessor(...) called with the given keyword arguments: the exception
\* the call raises
NewLLMProcessor(keywords) ==
    IF keywords \subseteq LLMProcessorParams /\ keywords # {} THEN "none" ELSE "TypeError"

\* _setup_llm_processors: the exception it raises and the pair its message
\* names. The classification processor is built with the keywords provider
\* and model_config as soon as its model is validated
SetupLLMProcessors(a, cfg) ==
    LET provider == cfg.llm_provider
        classify_model_name == OrDefault(a.classify_model, cfg.llm_model)
        summary_model_name == OrDefault(a.summary_model, cfg.llm_model)
        classify_llm == NewLLMProcessor({"provider", "model_config"})
    IN IF ~ValidateModel(cfg, provider, classify_model_name)
       THEN [raised |-> "ValueError", stage |-> "classify",
             about |-> [provider |-> provider, model |-> classify_model_name]]
       ELSE IF classify_llm # "none"
       THEN [raised |-> classify_llm, stage |-> "", about |-> NoPair]
       ELSE IF ~NeedsSummaryModel(a)
       THEN [raised |-> "none", stage |-> "", about |-> NoPair]
       ELSE IF ~ValidateModel(cfg, provider, summary_model_name)
       THEN [raised |-> "ValueError", stage |-> "summary",
             about |-> [provider |-> provider, model |-> summary_model_name]]
       ELSE [raised |-> "none", stage |-> "", about |-> NoPair]

---------------------------------------------------------------------------
(* The mailbox and the Gmail client's read operations *)

Min(a, b) == IF a < b THEN a ELSE b

\* label names used by the mailbox, the config and the model's answers
Wk == <<"W", "k">>
Nw == <<"N", "w">>

\* the messages of the mailbox, by position in the list result
MsgIds == <<"m1", "m2", "m3", "m4">>
MsgSubjects == <<"A", "B", "A", "C">>
MsgSnippets == <<"s1", "s2", "s3", "s4">>

\* a part of a payload: its media type, the data of its body (NoData when
\* the body has no 'data' key) and its sub-parts
Part(mimeType, data, parts) == [mimeType |-> mimeType, data |-> data, parts |-> parts]

NoData == <<>>

\* the base64url encoding of `text`, and data that cannot be decoded
B64(text) == <<"b64", text>>
BadData == <<"bad">>

Leaf(mimeType, text) == Part(mimeType, B64(text), <<>>)
Multi(parts) == Part("multipart/mixed", NoData, parts)

\* the payloads of the messages of the mailbox: an alternative followed by a
\* second plain part, a bare HTML body, a single plain part, a calendar body
MsgPayloads ==
    <<Multi(<<Multi(<<Leaf("text/plain", "p1"), Leaf("text/html", "h1")>>),
              Leaf("text/plain", "q1")>>),
      Leaf("text/html", "h2"),
      Multi(<<Leaf("text/plain", "p3")>>),
      Leaf("text/calendar", "c4")>>

Message(i) ==
    [id |-> MsgIds[i], subject |-> MsgSubjects[i], snippet |-> MsgSnippets[i],
     payload |-> MsgPayloads[i]]

\* _decode_body: the text of a body, empty when it has no data or when the
\* data cannot be decoded
DecodeBody(part) ==
    IF part.data = NoData THEN ""
    ELSE IF part.data[1] = "b64" THEN part.data[2]
    ELSE ""

\* html2text: the conversion of an HTML body to text
Html2Text(h) == "text of " \o h

RECURSIVE FindPart(_, _)
RECURSIVE FindInParts(_, _)
\* the loop of _find_part_by_mimetype over the sub-parts: the first find
FindInParts(parts, mimetype) ==
    IF parts = <<>> THEN <<>>
    ELSE LET found == FindPart(Head(parts), mimetype)
         IN IF found # <<>> THEN found ELSE FindInParts(Tail(parts), mimetype)

\* a plausible slip: the sub-parts are not searched recursively
FindPartMutant(payload, mimetype) ==
    IF payload.mimeType = mimetype THEN <<payload>>
    ELSE LET hits == SelectSeq(payload.parts, LAMBDA q : q.mimeType = mimetype)
         IN IF hits = <<>> THEN <<>> ELSE <<hits[1]>>

\* _find_part_by_mimetype: <<part>> for the part found, <<>> for None
FindPart(payload, mimetype) ==
    IF payload.mimeType = mimetype THEN <<payload>>
    ELSE FindInParts(payload.parts, mimetype)

\* get_message_content with fetch_full: the first plain part, else the
\* first HTML part converted, else the body of the payload, else the snippet
FullBody(m) ==
    LET plain_text == FindPart(m.payload, "text/plain")
        html_text == FindPart(m.payload, "text/html")
    IN IF plain_text # <<>> THEN DecodeBody(plain_text[1])
       ELSE IF html_text # <<>> THEN Html2Text(DecodeBody(html_text[1]))
       ELSE IF m.payload.data # NoData THEN DecodeBody(m.payload)
       ELSE m.snippet

\* get_message_content: the body of a message that was fetched
BodyContent(m, fetch_full) == IF ~fetch_full THEN m.snippet ELSE FullBody(m)

\* the dictionary fetch_emails appends for one message; NoSummary stands for
\* a dictionary without the key 'summary'
NoSummary == [summary |-> "<no key>"]

EmailRecord(m, fetch_full) ==
    [id |-> m.id, subject |-> m.subject, content |-> BodyContent(m, fetch_full),
     snippet |-> m.snippet, summary |-> NoSummary]

\* the dates datetime.now() gives at the time of a fetch
Clock == {[y |-> 2024, m |-> 3, d |-> 1]}

\* the Gregorian calendar of datetime
IsLeap(y) == (y % 4 = 0 /\ y % 100 # 0) \/ y % 400 = 0

DaysIn(y, m) ==
    IF m = 2 THEN (IF IsLeap(y) THEN 29 ELSE 28)
    ELSE IF m \in {4, 6, 9, 11} THEN 30 ELSE 31

\* the day before `date`
PrevDay(date) ==
    IF date.d > 1 THEN [date EXCEPT !.d = @ - 1]
    ELSE IF date.m > 1 THEN [y |-> date.y, m |-> date.m - 1, d |-> DaysIn(date.y, date.m - 1)]
    ELSE [y |-> date.y - 1, m |-> 12, d |-> 31]

RECURSIVE MinusDays(_, _)
\* date - timedelta(days=n), n >= 0
MinusDays(date, n) == IF n = 0 THEN date ELSE MinusDays(PrevDay(date), n - 1)

\* %m and %d: two digits
TwoDigits(n) == IF n < 10 THEN "0" \o ToString(n) ELSE ToString(n)

\* strftime('%Y/%m/%d'), for a year of four digits
Strftime(date) ==
    ToString(date.y) \o "/" \o TwoDigits(date.m) \o "/" \o TwoDigits(date.d)

\* the filter query of fetch_emails at time `now`, or the exception building
\* it raises: the dates of a range are inserted as the caller gave them
FilterQuery(a, now) ==
    IF /\ HasValue(a.date_from) /\ a.date_from.v # ""
       /\ HasValue(a.date_to) /\ a.date_to.v # ""
    THEN [kind |-> "range", after |-> a.date_from.v, before |-> a.date_to.v,
          text |-> "is:unread" \o " after:" \o a.date_from.v \o " before:" \o a.date_to.v]
    ELSE IF HasAttr(a.days_old)
         THEN IF a.days_old = None
              THEN [kind |-> "TypeError"]
              ELSE LET date_filter == Strftime(MinusDays(now, a.days_old.v))
                   IN [kind |-> "lookback", days |-> a.days_old.v,
                       text |-> "is:unread" \o " after:" \o date_filter]
         ELSE [kind |-> "unread", text |-> "is:unread"]

\* the messages the list call returns: at most maxResults of them
Listed(msgs, a) == SubSeq(msgs, 1, Min(Len(msgs), a.max_emails.v))

RECURSIVE Retained(_, _, _)
\* a plausible slip: the loop ends at the first message whose get call fails
RetainedMutant(listed, getOk, fetch_full) ==
    IF listed = <<>> \/ ~Head(getOk) THEN <<>>
    ELSE <<EmailRecord(Head(listed), fetch_full)>>
           \o Retained(Tail(listed), Tail(getOk), fetch_full)

\* the loop of fetch_emails: a message whose get call fails is dropped
Retained(listed, getOk, fetch_full) ==
    IF listed = <<>> THEN <<>>
    ELSE LET rest == Retained(Tail(listed), Tail(getOk), fetch_full)
         IN IF Head(getOk)
            THEN <<EmailRecord(Head(listed), fetch_full)>> \o rest
            ELSE rest

\* a record of one external call
Call(op, target, name, id, ok) ==
    [op |-> op, target |-> target, name |-> name, id |-> id, ok |-> ok]

GetCalls(listed, getOk) ==
    [i \in 1..Len(listed) |-> Call("getMessage", listed[i].id, <<>>, "", getOk[i])]

\* the id None of a label that comes from the config
NoneId == "<None>"

\* a plausible slip: the id of a configured placeholder counts as an id
TruthyMutant(id) == id # ""

\* the truth value Python gives a label id
Truthy(id) == id # "" /\ id # NoneId

\* the user labels list_labels keeps
UserLabels(labels) ==
    SelectSeq(labels, LAMBDA l : l.type = "user" /\ Truthy(l.id) /\ l.name # <<>>)

\* GmailClient.list_labels, given whether the mailbox call succeeds
ListLabels(labels, cfg, listOk) ==
    IF ~listOk THEN <<>>
    ELSE IF UserLabels(labels) # <<>> THEN UserLabels(labels)
    ELSE IF cfg.email_labels # <<>>
         THEN [i \in 1..Len(cfg.email_labels) |->
                  [id |-> NoneId, name |-> cfg.email_labels[i], type |-> "user"]]
         ELSE <<>>

---------------------------------------------------------------------------
(* GmailClient.apply_label *)

\* the ids the mailbox gives its labels, in order of creation
LabelIds == <<"L1", "L2", "L3", "L4", "L5", "L6", "L7", "L8">>

\* the outcomes of one apply_label call's mailbox calls
CreateOutcomes == {"ok", "noid", "error"}
ApplyOutcomes == [list : BOOLEAN, create : CreateOutcomes, modify : BOOLEAN]

\* a plausible slip: only the exact sentinel is skipped
IsSkippedNameMutant(label_name) == label_name = <<>> \/ label_name = NONE

\* the guard of apply_label: not label_name or label_name.strip().upper() == 'NONE'
IsSkippedName(label_name) == label_name = <<>> \/ Upper(Strip(label_name)) = NONE

\* a plausible slip: names are compared exactly
NameMatchesMutant(a, b) == a = b

\* label['name'].lower() == label_name.lower()
NameMatches(a, b) == Lower(a) = Lower(b)

\* the lookup loop of apply_label: the id of the first label whose name
\* matches and whose id is set, else no id
FindLabelId(labels, label_name) ==
    LET hits == {i \in 1..Len(labels) :
                    NameMatches(labels[i].name, label_name) /\ Truthy(labels[i].id)}
    IN IF hits = {} THEN NoneId
       ELSE labels[CHOOSE i \in hits : \A j \in hits : i <= j].id

\* apply_label(message_id, label_name) on a mailbox holding `labels`, with
\* the outcomes `out` of its mailbox calls: the value returned, the calls
\* made and the labels of the mailbox afterwards
ApplyLabel(labels, cfg, message_id, label_name, out) ==
    IF IsSkippedName(label_name)
    THEN [result |-> FALSE, calls |-> <<>>, labels |-> labels]
    ELSE
      LET listCall == Call("listLabels", "", <<>>, "", out.list)
          found == FindLabelId(ListLabels(labels, cfg, out.list), label_name)
          newId == LabelIds[Len(labels) + 1]
          createCall == Call("createLabel", "", label_name,
                             IF out.create = "ok" THEN newId ELSE "",
                             out.create # "error")
          created == Append(labels, [id |-> newId, name |-> label_name, type |-> "user"])
      IN IF Truthy(found)
         THEN [result |-> out.modify,
               calls |-> <<listCall, Call("modifyMessage", message_id, label_name, found, out.modify)>>,
               labels |-> labels]
         ELSE IF out.create # "ok"
              THEN [result |-> FALSE, calls |-> <<listCall, createCall>>, labels |-> labels]
              ELSE [result |-> out.modify,
                    calls |-> <<listCall, createCall,
                                Call("modifyMessage", message_id, label_name, newId, out.modify)>>,
                    labels |-> created]

---------------------------------------------------------------------------
(* The language model *)

\* the summary summarize_emails stores when the call or the parsing fails
ErrorSummary ==
    [summary |-> "Error parsing response", category_major |-> "None",
     category_minor |-> "None", category_reasoning |-> "None"]

\* the summaries the parser can deliver
ParsedSummaries ==
    {[summary |-> "synopsis", category_major |-> "Chase",
      category_minor |-> "Bills", category_reasoning |-> "because"]}

\* the outcomes of one summarization: the model call raises, the parser
\* raises, or the parser delivers `parsed`
SummaryOutcomes ==
    [kind : {"ok", "invoke_error", "parse_error"}, parsed : ParsedSummaries]

\* a plausible slip: only a parser error is turned into the sentinel
SummaryOfMutant(out) ==
    IF out.kind = "parse_error" THEN ErrorSummary ELSE out.parsed

\* summarize_emails: the summary stored for one email
SummaryOf(out) ==
    IF out.kind = "ok" THEN out.parsed ELSE ErrorSummary

\* the raw answers of the classification model (response.content)
RawAnswers ==
    {NONE, <<" ", "n", "o", "n", "e">>, <<" ">>, <<"w", "k", " ">>}

ClassifyOutcomes ==
    {[ok |-> TRUE, content |-> r] : r \in RawAnswers} \cup {[ok |-> FALSE, content |-> <<>>]}

---------------------------------------------------------------------------
(* EmailClassifier.__init__ *)

\* the outcomes of GmailClient._authenticate: the service is built, the
\* credentials file is missing, or the OAuth flow or the service build failed
AuthOutcomes == {"none", "FileNotFoundError", "ConnectionError"}

\* __init__: _initialize_args, then GmailClient(config), which authenticates,
\* then _setup_llm_processors
Construct ==
    /\ pc = "new"
    /\ LET r == InitializeArgs(args, config)
           s == SetupLLMProcessors(r.args, config)
       IN /\ args' = r.args
          /\ IF r.raised # "none"
             THEN /\ raised' = r.raised
                  /\ raised_for' = NoPair
                  /\ pc' = "raised"
                  /\ UNCHANGED calls
             ELSE \E auth \in AuthOutcomes :
                    /\ calls' = Append(calls, Call("authenticate", "", <<>>, "", auth = "none"))
                    /\ raised' = IF auth # "none" THEN auth ELSE s.raised
                    /\ raised_for' = IF auth # "none" THEN NoPair ELSE s.about
                    /\ pc' = IF raised' = "none" THEN "ready" ELSE "raised"
    /\ UNCHANGED <<config, input, mailMsgs, mailLabels, email_info, all_labels,
                   classifications, idx,
                   sum_outcomes, lastApply>>

---------------------------------------------------------------------------
(* GmailClient.fetch_emails and GmailClient.list_labels, called on a client *)

\* fetch_emails(args): the filter query, the list call and one
\* get_message_content call per listed message. The TypeError of
\* timedelta(days=None) is raised before the try block and leaves
\* fetch_emails; a failed list call is caught and gives the empty list. The
\* list call is recorded with the mode of its query as target and the text
\* of the query as id
FetchEmails ==
    /\ pc = "fetch"
    /\ \E now \in Clock :
         LET q == FilterQuery(args, now)
             listed == Listed(mailMsgs, args)
         IN IF q.kind = "TypeError"
            THEN /\ pc' = "raised"
                 /\ raised' = "TypeError"
                 /\ UNCHANGED <<email_info, calls>>
            ELSE \E listOk \in BOOLEAN, getOk \in [1..Len(listed) -> BOOLEAN] :
                   /\ email_info' = IF listOk
                                    THEN Retained(listed, getOk, args.use_full_content.v)
                                    ELSE <<>>
                   /\ calls' = calls \o <<Call("listMessages", q.kind, <<>>, q.text, listOk)>>
                                     \o (IF listOk THEN GetCalls(listed, getOk) ELSE <<>>)
                   /\ pc' = "fetched"
                   /\ UNCHANGED raised
    /\ UNCHANGED <<config, input, args, raised_for, mailMsgs, mailLabels, all_labels,
                   classifications, idx, sum_outcomes, lastApply>>

\* list_labels(): the labels call and the value returned
ClientListLabels ==
    /\ pc = "list"
    /\ \E listOk \in BOOLEAN :
         /\ all_labels' = ListLabels(mailLabels, config, listOk)
         /\ calls' = Append(calls, Call("listLabels", "", <<>>, "", listOk))
    /\ pc' = "listed"
    /\ UNCHANGED <<config, input, args, raised, raised_for, mailMsgs, mailLabels, email_info,
                   classifications, idx, sum_outcomes, lastApply>>

---------------------------------------------------------------------------
(* LLMProcessor.summarize_emails and LLMProcessor.classify_emails, called
   on a processor *)

\* summarize_emails: its for loop goes on to the next email whatever the
\* outcome of the model call
NextEmail(i, out) == i + 1

\* summarize_emails: one iteration of its loop
SummarizeEmail ==
    /\ pc = "summarize"
    /\ idx <= Len(email_info)
    /\ \E out \in SummaryOutcomes :
         /\ email_info' = [email_info EXCEPT ![idx].summary = SummaryOf(out)]
         /\ calls' = Append(calls, Call("invokeSummary", email_info[idx].id, <<>>, "",
                                        out.kind # "invoke_error"))
         /\ sum_outcomes' = Append(sum_outcomes, out)
         /\ idx' = NextEmail(idx, out)
    /\ UNCHANGED <<config, input, args, pc, raised, raised_for, mailMsgs, mailLabels, all_labels,
                   classifications, lastApply>>

\* summarize_emails: the return of email_info after the loop
SummarizeEmailsReturn ==
    /\ pc = "summarize"
    /\ idx > Len(email_info)
    /\ pc' = "summarized"
    /\ UNCHANGED <<config, input, args, raised, raised_for, mailMsgs, mailLabels, email_info,
                   all_labels, classifications, idx, calls, sum_outcomes, lastApply>>

\* a plausible slip: an answer of NONE is left out of the result
ClassifiedMutant(cls, email, content) ==
    IF Strip(content) = NONE THEN cls ELSE Append(cls, <<email.subject, Strip(content)>>)

\* classify_emails: the result list after the answer for one email
Classified(cls, email, content) == Append(cls, <<email.subject, Strip(content)>>)

\* classify_emails: one iteration of its loop. The model call is made outside
\* any try block: its exception leaves classify_emails, and the result list
\* is never returned
ClassifyEmail ==
    /\ pc = "classify"
    /\ idx <= Len(email_info)
    /\ \E out \in ClassifyOutcomes :
         /\ calls' = Append(calls, Call("invokeClassify", email_info[idx].id, out.content, "", out.ok))
         /\ IF out.ok
            THEN /\ classifications' = Classified(classifications, email_info[idx], out.content)
                 /\ idx' = idx + 1
                 /\ UNCHANGED <<pc, raised>>
            ELSE /\ pc' = "raised"
                 /\ raised' = "Exception"
                 /\ UNCHANGED <<classifications, idx>>
    /\ UNCHANGED <<config, input, args, raised_for, mailMsgs, mailLabels, email_info,
                   all_labels, sum_outcomes, lastApply>>

\* the for loop of classify_emails has gone through `emails`
LoopOver(i, emails) == i > Len(emails)

\* classify_emails: the return of the result list after the loop
ClassifyEmailsReturn ==
    /\ pc = "classify"
    /\ LoopOver(idx, email_info)
    /\ pc' = "classified"
    /\ UNCHANGED <<config, input, args, raised, raised_for, mailMsgs, mailLabels, email_info,
                   all_labels, classifications, idx, calls, sum_outcomes, lastApply>>

---------------------------------------------------------------------------
(* GmailClient.apply_label called directly on the client *)

\* the record kept of one apply_label call
ApplyRecord(n, message_id, label_name, before, r) ==
    [n |-> n, message_id |-> message_id, label_name |-> label_name,
     before |-> before, result |-> r.result, calls |-> r.calls]

NoApply ==
    [n |-> 0, message_id |-> "", label_name |-> <<>>, before |-> <<>>,
     result |-> FALSE, calls |-> <<>>]

\* zip(email_info, classifications) stops at the shorter of the two
ZipLen == Min(Len(email_info), Len(classifications))
\* number of direct apply_label calls
MaxClientCalls == 2

\* the label names handed to apply_label
ClientNames ==
    {<<>>, NONE, <<" ", "n", "o", "n", "e">>, <<"N", "o", "n", "e", " ">>,
     Wk, <<"w", "k">>, Nw}

ClientApplyLabel ==
    /\ pc = "client"
    /\ lastApply.n < MaxClientCalls
    /\ \E label_name \in ClientNames, out \in ApplyOutcomes :
         LET r == ApplyLabel(mailLabels, config, "m1", label_name, out)
         IN /\ mailLabels' = r.labels
            /\ calls' = calls \o r.calls
            /\ lastApply' = ApplyRecord(lastApply.n + 1, "m1", label_name, mailLabels, r)
    /\ UNCHANGED <<config, input, args, pc, raised, raised_for, mailMsgs, email_info, all_labels,
                   classifications, idx,
                   sum_outcomes>>

---------------------------------------------------------------------------
(* GmailLabels (modules/label.py): update_labels on a classified batch *)

\* the id of a label dictionary that has no 'id' key
NoIdKey == "<no key>"

\* GmailLabels.fetch_labels, given whether the mailbox call succeeds: the
\* labels of type 'user', else the configured names as dictionaries with
\* the keys 'name' and 'type' only
FetchLabels(labels, cfg, listOk) ==
    IF ~listOk THEN <<>>
    ELSE LET user_labels == SelectSeq(labels, LAMBDA l : l.type = "user")
         IN IF user_labels # <<>> THEN user_labels
            ELSE [i \in 1..Len(cfg.email_labels) |->
                     [id |-> NoIdKey, name |-> cfg.email_labels[i], type |-> "user"]]

RECURSIVE LookupLabel(_, _)
\* the lookup loop of _update_label: the id of the first label of that name
\* whose id is not None; label['id'] raises KeyError on a dictionary
\* without that key
LookupLabel(available, label_name) ==
    IF available = <<>> THEN [kind |-> "none"]
    ELSE LET label == Head(available)
         IN IF Lower(label.name) # Lower(label_name)
            THEN LookupLabel(Tail(available), label_name)
            ELSE IF label.id = NoIdKey THEN [kind |-> "KeyError"]
            ELSE IF label.id # NoneId THEN [kind |-> "found", id |-> label.id]
            ELSE LookupLabel(Tail(available), label_name)

\* _update_label(message_id, label_name, available_labels) on a mailbox
\* holding `labels`, with the outcomes `out` of its mailbox calls: the value
\* returned, the calls made and the labels of the mailbox afterwards
UpdateLabel(available, labels, message_id, label_name, out) ==
    LET found == LookupLabel(available, label_name)
        newId == LabelIds[Len(labels) + 1]
        createCall == Call("createLabel", "", label_name,
                           IF out.create = "ok" THEN newId ELSE "",
                           out.create # "error")
        created == Append(labels, [id |-> newId, name |-> label_name, type |-> "user"])
    IN IF found.kind = "KeyError"
       THEN [result |-> FALSE, calls |-> <<>>, labels |-> labels]
       ELSE IF found.kind = "found" /\ found.id # ""
       THEN [result |-> out.modify,
             calls |-> <<Call("modifyMessage", message_id, label_name, found.id, out.modify)>>,
             labels |-> labels]
       ELSE IF out.create # "ok"
       THEN [result |-> FALSE, calls |-> <<createCall>>, labels |-> labels]
       ELSE [result |-> out.modify,
             calls |-> <<createCall,
                         Call("modifyMessage", message_id, label_name, newId, out.modify)>>,
             labels |-> created]

\* update_labels: the one fetch_labels call before the loop
UpdateLabelsStart ==
    /\ pc = "batch"
    /\ \E listOk \in BOOLEAN :
         /\ all_labels' = FetchLabels(mailLabels, config, listOk)
         /\ calls' = Append(calls, Call("listLabels", "", <<>>, "", listOk))
    /\ pc' = "updating"
    /\ idx' = 1
    /\ UNCHANGED <<config, input, args, raised, raised_for, mailMsgs, mailLabels, email_info,
                   classifications, sum_outcomes,
                   lastApply>>

\* update_labels: one iteration of its loop over zip(email_info,
\* classifications)
UpdateLabelsStep ==
    /\ pc = "updating"
    /\ idx <= ZipLen
    /\ LET label == classifications[idx][2]
           message_id == email_info[idx].id
       IN IF label # <<>> /\ label # NONE
          THEN \E out \in ApplyOutcomes :
                 LET r == UpdateLabel(all_labels, mailLabels, message_id, label, out)
                 IN /\ mailLabels' = r.labels
                    /\ calls' = calls \o r.calls
                    /\ lastApply' = ApplyRecord(lastApply.n + 1, message_id, label, mailLabels, r)
          ELSE UNCHANGED <<mailLabels, calls, lastApply>>
    /\ idx' = idx + 1
    /\ UNCHANGED <<config, input, args, pc, raised, raised_for, mailMsgs, email_info, all_labels,
                   classifications, sum_outcomes>>

\* update_labels: the end of its loop
UpdateLabelsEnd ==
    /\ pc = "updating"
    /\ idx > ZipLen
    /\ pc' = "batch_done"
    /\ UNCHANGED <<config, input, args, raised, raised_for, mailMsgs, mailLabels, email_info,
                   all_labels, classifications, idx,
                   calls, sum_outcomes, lastApply>>

---------------------------------------------------------------------------
(* GmailClient.get_message_content, called for one message *)

\* the body of the loop of fetch_emails for the first message of the
\* mailbox: get_message_content with fetch_full = args.use_full_content,
\* which returns None when the get call raises
GetMessageContent ==
    /\ pc = "content"
    /\ \E ok \in BOOLEAN :
         /\ calls' = Append(calls, Call("getMessage", mailMsgs[1].id, <<>>, "", ok))
         /\ email_info' = IF ok
                          THEN <<EmailRecord(mailMsgs[1], args.use_full_content.v)>>
                          ELSE <<>>
    /\ pc' = "content_done"
    /\ UNCHANGED <<config, input, args, raised, raised_for, mailMsgs, mailLabels, all_labels,
                   classifications, idx,
                   sum_outcomes, lastApply>>

---------------------------------------------------------------------------
(* The callers of EmailClassifier: run_console and the /api/classify handler *)

\* the flags of the mutually exclusive group of create_arg_parser
DateGroup == {"days_old", "date_from", "date_to"}

\* the flags of the group that are given on the command line `argv`, a
\* record in which a flag that is not given is Absent
GivenOfGroup(argv) == {f \in DateGroup : argv[f] # Absent}

\* parse_args: a flag with a value that is not given becomes None, a
\* store_true flag that is not given becomes False
Namespace(argv) ==
    [f \in DOMAIN argv |->
        IF argv[f] # Absent THEN argv[f]
        ELSE IF f \in {"use_full_content", "dry_run", "save_steps", "print"}
             THEN Val(FALSE)
             ELSE None]

\* run_console: parser.parse_args() on the command line held in input. Two
\* flags of the mutually exclusive group make the parser print its usage
\* and exit with status 2; otherwise the namespace goes to EmailClassifier
ParseArgs ==
    /\ pc = "cli"
    /\ IF Cardinality(GivenOfGroup(input)) > 1
       THEN pc' = "usage_error" /\ UNCHANGED args
       ELSE pc' = "new" /\ args' = Namespace(input)
    /\ UNCHANGED <<config, input, raised, raised_for, mailMsgs, mailLabels, email_info,
                   all_labels, classifications, idx,
                   calls, sum_outcomes, lastApply>>

\* run_console: the exit status of the process at position `p`. An
\* exception of the constructor is not caught and ends the interpreter with
\* status 1; run catches its own exceptions and returns, and the process
\* ends with status 0; a usage error of the parser ends it with status 2
ConsoleExitStatus(p) ==
    IF p = "usage_error" THEN 2 ELSE IF p = "raised" THEN 1 ELSE 0

\* the /api/classify handler: the status field of its response at position
\* `p`. Its except branch is taken by an exception of the constructor only
ApiStatus(p) == IF p = "raised" THEN "error" ELSE "success"

---------------------------------------------------------------------------
(* Initial states *)

\* config.yaml: the defaults, with the fallback labels `el`
Config(el) ==
    [max_emails |-> MaxEmails, days_old |-> 7, dry_run |-> TRUE,
     use_full_content |-> FALSE, print_output |-> TRUE, save_steps |-> FALSE,
     email_labels |-> el,
     llm_provider |-> "openai", llm_model |-> "gpt-4o-mini",
     llm_providers |-> [p \in {"openai"} |-> {"gpt-4o", "gpt-4o-mini"}]]

Inbox == [id |-> "L1", name |-> <<"I", "N", "B", "O", "X">>, type |-> "system"]

\* the labels a mailbox starts with, and the config used with it
Worlds ==
    {[labels |-> <<>>, config |-> Config(<<>>)],
     [labels |-> <<Inbox>>, config |-> Config(<<Wk>>)],
     [labels |-> <<Inbox, [id |-> "L2", name |-> Wk, type |-> "user"]>>,
      config |-> Config(<<Wk>>)],
     [labels |-> <<[id |-> "L1", name |-> Nw, type |-> "user"]>>,
      config |-> Config(<<>>)]}

Mailboxes == {[i \in 1..n |-> Message(i)] : n \in 0..MaxEmails}

\* the args of a caller that gives or leaves out the boolean flags
RunArgs ==
    {[max_emails |-> None, days_old |-> None, date_from |-> None, date_to |-> None,
      use_full_content |-> f, dry_run |-> dr, save_steps |-> sv, print |-> None,
      classify_model |-> None, summary_model |-> None] :
       f \in {None, Val(TRUE)},
       dr \in {None, Val(FALSE)},
       sv \in {None, Val(TRUE)}}

OptDates == {Absent, None, Val(""), Val("2024-01-01"), Val("2024/02/01")}
OptDays == {Absent, None, Val(0), Val(2)}

\* the args whose resolution is examined: every combination of the date flags
ConfigArgs ==
    {[max_emails |-> me, days_old |-> d, date_from |-> f, date_to |-> t,
      use_full_content |-> None, dry_run |-> dr, save_steps |-> None, print |-> None,
      classify_model |-> None, summary_model |-> None] :
       me \in {None, Val(1)}, d \in OptDays, f \in OptDates, t \in OptDates,
       dr \in {None, Val(TRUE), Val(FALSE)}}

\* the values a caller can give a boolean flag
OptBools == {Absent, None, Val(TRUE), Val(FALSE)}

\* the args whose numeric and boolean flags are examined
FlagArgs ==
    {[max_emails |-> me, days_old |-> None, date_from |-> None, date_to |-> None,
      use_full_content |-> u, dry_run |-> dr, save_steps |-> sv, print |-> pr,
      classify_model |-> None, summary_model |-> None] :
       me \in {None, Val(0), Val(1)},
       u \in OptBools, dr \in OptBools, sv \in OptBools, pr \in OptBools}

InitCommon ==
    /\ raised = "none"
    /\ raised_for = NoPair
    /\ email_info = <<>>
    /\ all_labels = <<>>
    /\ classifications = <<>>
    /\ idx = 1
    /\ sum_outcomes = <<>>
    /\ lastApply = NoApply

\* a caller about to construct an EmailClassifier from one of `inps`
AboutToConstruct(inps) ==
    /\ pc = "new"
    /\ input \in inps
    /\ args = input
    /\ calls = <<>>

\* the args _initialize_args leaves, for those of `inps` it accepts
ResolvedArgs(inps, cfg) ==
    {InitializeArgs(a, cfg).args : a \in {b \in inps : InitializeArgs(b, cfg).raised = "none"}}

\* a GmailClient about to receive apply_label calls or a list_labels call
Init ==
    /\ \E w \in Worlds : config = w.config /\ mailLabels = w.labels
    /\ pc \in {"client", "list"}
    /\ input \in {CHOOSE a \in RunArgs : TRUE}
    /\ args = input
    /\ mailMsgs = <<>>
    /\ calls = <<>>
    /\ InitCommon

InitConfig ==
    /\ config = Config(<<Wk>>)
    /\ mailLabels = <<Inbox>>
    /\ AboutToConstruct(ConfigArgs)
    /\ mailMsgs = [i \in 1..1 |-> Message(i)]
    /\ InitCommon

\* a GmailClient about to receive fetch_emails(args), the args being a
\* namespace as _initialize_args leaves it
InitFetch ==
    /\ config = Config(<<Wk>>)
    /\ mailLabels = <<Inbox>>
    /\ pc = "fetch"
    /\ input \in ResolvedArgs(ConfigArgs \cup RunArgs, config)
    /\ args = input
    /\ mailMsgs \in Mailboxes
    /\ calls = <<>>
    /\ InitCommon

\* the summaries the emails handed to classify_emails carry
BatchSummaries == {ErrorSummary} \cup ParsedSummaries

\* an LLMProcessor about to receive summarize_emails on a batch of fetched
\* emails, or classify_emails on a batch of summarized emails
InitLLM ==
    /\ config = Config(<<Wk>>)
    /\ mailLabels = <<Inbox>>
    /\ input \in {CHOOSE a \in RunArgs : TRUE}
    /\ args = input
    /\ mailMsgs \in Mailboxes
    /\ raised = "none"
    /\ raised_for = NoPair
    /\ \/ /\ pc = "summarize"
          /\ email_info = [i \in 1..Len(mailMsgs) |-> EmailRecord(mailMsgs[i], TRUE)]
       \/ /\ pc = "classify"
          /\ \E full \in BOOLEAN, s \in [1..Len(mailMsgs) -> BatchSummaries] :
               email_info = [i \in 1..Len(mailMsgs) |->
                               [EmailRecord(mailMsgs[i], full) EXCEPT !.summary = s[i]]]
    /\ all_labels = <<>>
    /\ classifications = <<>>
    /\ idx = 1
    /\ calls = <<>>
    /\ sum_outcomes = <<>>
    /\ lastApply = NoApply
\* the model selections of a caller: none, empty, registered, unknown
OptModels == {None, Val(""), Val("gpt-4o"), Val("gpt-5")}

\* the args whose model selection is examined, with and without a date
\* conflict
SetupArgs ==
    {[max_emails |-> None, days_old |-> None, date_from |-> f, date_to |-> None,
      use_full_content |-> u, dry_run |-> None, save_steps |-> None, print |-> None,
      classify_model |-> c, summary_model |-> m] :
       f \in {None, Val("2024-01-01")},
       u \in {None, Val(TRUE), Val(FALSE)},
       c \in OptModels, m \in OptModels}

\* config.yaml with other defaults: a default model or provider that is not
\* registered, full content by default
SetupConfigs ==
    {[Config(<<Wk>>) EXCEPT !.llm_provider = p, !.llm_model = m, !.use_full_content = u] :
       p \in {"openai", "acme"}, m \in {"gpt-4o-mini", "retired"}, u \in BOOLEAN}

InitSetup ==
    /\ config \in SetupConfigs
    /\ mailLabels = <<Inbox>>
    /\ pc = "new"
    /\ input \in SetupArgs
    /\ args = input
    /\ mailMsgs = [i \in 1..1 |-> Message(i)]
    /\ calls = <<>>
    /\ InitCommon

\* the leaves of the payloads examined: plain text, plain text that cannot
\* be decoded, HTML, an image, an attachment without data
ContentLeaves ==
    {Leaf("text/plain", "a"), Leaf("text/plain", "b"),
     Part("text/plain", BadData, <<>>),
     Leaf("text/html", "h"), Leaf("image/png", "i"),
     Part("image/png", NoData, <<>>)}

\* the containers of up to MaxParts leaves
LeafContainers ==
    {Multi(ps) : ps \in UNION {[1..k -> ContentLeaves] : k \in 1..MaxParts}}

\* the payloads examined: a leaf, a container of leaves, a container of a
\* container and a leaf in either order
Payloads ==
    ContentLeaves \cup LeafContainers
      \cup {Multi(<<c, l>>) : c \in LeafContainers, l \in ContentLeaves}
      \cup {Multi(<<l, c>>) : c \in LeafContainers, l \in ContentLeaves}

\* the args of a fetch in either content mode
ContentArgs ==
    {[a EXCEPT !.use_full_content = Val(f)] :
       a \in {b \in RunArgs : b.use_full_content = None /\ b.dry_run = None
                               /\ b.save_steps = None},
       f \in BOOLEAN}

\* a GmailClient about to fetch the content of the one message of a mailbox
InitContent ==
    /\ config = Config(<<>>)
    /\ mailLabels = <<>>
    /\ pc = "content"
    /\ input \in ContentArgs
    /\ args = input
    /\ \E payload \in Payloads :
         mailMsgs = <<[id |-> "m1", subject |-> "A", snippet |-> "s1", payload |-> payload]>>
    /\ calls = <<>>
    /\ InitCommon

InitFlags ==
    /\ config = Config(<<Wk>>)
    /\ mailLabels = <<Inbox>>
    /\ AboutToConstruct(FlagArgs)
    /\ mailMsgs = [i \in 1..1 |-> Message(i)]
    /\ InitCommon

\* the command lines examined: each flag given or not
CliArgv ==
    {[max_emails |-> me, days_old |-> d, date_from |-> f, date_to |-> t,
      use_full_content |-> u, dry_run |-> dr, save_steps |-> sv, print |-> pr,
      classify_model |-> Absent, summary_model |-> Absent] :
       me \in {Absent, Val(1)}, d \in {Absent, Val(2)},
       f \in {Absent, Val("2024-01-01")}, t \in {Absent, Val("2024-02-01")},
       u \in {Absent, Val(TRUE)}, dr \in {Absent, Val(TRUE)},
       sv \in {Absent, Val(TRUE)}, pr \in {Absent, Val(TRUE)}}

\* run_console about to parse its command line
InitCli ==
    /\ config = Config(<<Wk>>)
    /\ mailLabels = <<Inbox>>
    /\ pc = "cli"
    /\ input \in CliArgv
    /\ args = input
    /\ mailMsgs = [i \in 1..1 |-> Message(i)]
    /\ calls = <<>>
    /\ InitCommon

\* the labels suggested for the emails of a batch
BatchLabels == {Wk, <<"w", "k">>, NONE}

\* a GmailLabels about to apply the classifications of a batch of emails
InitLabels ==
    /\ \E w \in Worlds : config = w.config /\ mailLabels = w.labels
    /\ pc = "batch"
    /\ input \in {CHOOSE a \in RunArgs : TRUE}
    /\ args = input
    /\ mailMsgs \in Mailboxes
    /\ raised = "none"
    /\ raised_for = NoPair
    /\ email_info = [i \in 1..Len(mailMsgs) |-> EmailRecord(mailMsgs[i], FALSE)]
    /\ \E ls \in [1..Len(mailMsgs) -> BatchLabels] :
         classifications = [i \in 1..Len(mailMsgs) |-> <<mailMsgs[i].subject, ls[i]>>]
    /\ all_labels = <<>>
    /\ idx = 1
    /\ calls = <<>>
    /\ sum_outcomes = <<>>
    /\ lastApply = NoApply

Next == ClientApplyLabel \/ ClientListLabels

Spec == Init /\ [][Next]_vars

NextSetup == Construct

SpecConfig == InitConfig /\ [][NextSetup]_vars

SpecSetup == InitSetup /\ [][NextSetup]_vars

SpecFlags == InitFlags /\ [][NextSetup]_vars

NextFetch == FetchEmails

SpecFetch == InitFetch /\ [][NextFetch]_vars

NextLLM ==
    \/ SummarizeEmail
    \/ SummarizeEmailsReturn
    \/ ClassifyEmail
    \/ ClassifyEmailsReturn

SpecLLM == InitLLM /\ [][NextLLM]_vars

NextCli == ParseArgs \/ Construct

SpecCli == InitCli /\ [][NextCli]_vars

NextLabels == UpdateLabelsStart \/ UpdateLabelsStep \/ UpdateLabelsEnd

SpecLabels == InitLabels /\ [][NextLabels]_vars

NextContent == GetMessageContent

SpecContent == InitContent /\ [][NextContent]_vars
---------------------------------------------------------------------------
(* Vocabulary of the properties *)

\* the calls of the history that satisfy Test, in order
CallsWhere(Test(_)) == SelectSeq(calls, Test)

IsCreate(c) == c.op = "createLabel"
IsModify(c) == c.op = "modifyMessage"
IsMutation(c) == IsCreate(c) \/ IsModify(c)
IsListLabels(c) == c.op = "listLabels"
IsSummaryCall(c) == c.op = "invokeSummary"
IsClassifyCall(c) == c.op = "invokeClassify"
IsGetOk(c) == c.op = "getMessage" /\ c.ok
IsModifyOk(c) == IsModify(c) /\ c.ok
IsCreated(c) == IsCreate(c) /\ c.ok /\ c.id # ""

\* a name that says "no label": empty, or NONE in any casing and with any
\* surrounding blanks
IsNoLabel(name) ==
    \/ name = <<>>
    \/ LET t == Strip(name)
       IN /\ Len(t) = 4
          /\ t[1] \in {"N", "n"} /\ t[2] \in {"O", "o"}
          /\ t[3] \in {"N", "n"} /\ t[4] \in {"E", "e"}

\* two names that differ at most in the case of their letters
SameName(a, b) == Lower(a) = Lower(b)

\* the labels of `labels` a suggested name refers to
Existing(labels, name) ==
    {i \in 1..Len(labels) :
        /\ labels[i].type = "user"
        /\ labels[i].id \notin {"", NoneId}
        /\ SameName(labels[i].name, name)}

---------------------------------------------------------------------------
(* Properties *)

\* C2: no createLabel or modifyMessage call is ever made for a label name
\* that is empty or NONE in any casing or with surrounding blanks, whatever
\* the names apply_label is handed.
C2_NoneNeverApplied ==
    \A i \in 1..Len(calls) : IsMutation(calls[i]) => ~IsNoLabel(calls[i].name)

\* the second of two direct calls was handed ' none' after the first had
\* attached a label: it made no call and returned False
C2_Witness ==
    /\ pc = "client" /\ lastApply.n = 2
    /\ lastApply.label_name = <<" ", "n", "o", "n", "e">>
    /\ lastApply.calls = <<>> /\ ~lastApply.result
    /\ \E i \in 1..Len(calls) : IsModifyOk(calls[i])

\* C3: an apply_label call made when the mailbox already holds a user label
\* of that name (up to case), and whose label listing succeeds, makes no
\* createLabel call, makes one modifyMessage call with the id of the
\* existing label and returns True when that call succeeds; and as long as
\* the label listings succeed, no two labels whose names are equal up to
\* case are created.
C3_ApplyIdempotent ==
    /\ (/\ lastApply.n > 0 /\ ~IsNoLabel(lastApply.label_name)
        /\ Existing(lastApply.before, lastApply.label_name) # {}
        /\ lastApply.calls[1].ok)
         => /\ Len(lastApply.calls) = 2
            /\ IsListLabels(lastApply.calls[1])
            /\ IsModify(lastApply.calls[2])
            /\ lastApply.calls[2].target = lastApply.message_id
            /\ lastApply.calls[2].id \in
                 {lastApply.before[j].id : j \in Existing(lastApply.before, lastApply.label_name)}
            /\ lastApply.result = lastApply.calls[2].ok
    /\ (\A i \in 1..Len(calls) : IsListLabels(calls[i]) => calls[i].ok)
         => LET made == CallsWhere(IsCreated)
            IN \A i, j \in 1..Len(made) : SameName(made[i].name, made[j].name) => i = j

\* the second of two direct calls found, under another casing, the label the
\* first call had created, attached it and returned True
C3_Witness ==
    /\ pc = "client" /\ lastApply.n = 2 /\ lastApply.result
    /\ \E c \in {calls[i] : i \in 1..Len(calls)} :
         /\ IsCreated(c)
         /\ SameName(c.name, lastApply.label_name) /\ c.name # lastApply.label_name
         /\ \E i \in 1..Len(lastApply.calls) :
              IsModify(lastApply.calls[i]) /\ lastApply.calls[i].id = c.id
    /\ \A i \in 1..Len(lastApply.calls) : ~IsCreate(lastApply.calls[i])

\* C4: when classify_emails has returned, classifications holds one pair
\* per email of email_info, in the same order: the i-th pair is the subject
\* of the i-th email with the stripped answer the model gave for that email.
C4_ClassifyMirrorsInput ==
    pc = "classified"
    => LET answers == CallsWhere(IsClassifyCall)
       IN /\ Len(classifications) = Len(email_info)
          /\ Len(answers) = Len(email_info)
          /\ \A i \in 1..Len(email_info) :
               /\ answers[i].target = email_info[i].id
               /\ classifications[i] = <<email_info[i].subject, Strip(answers[i].name)>>

\* classify_emails returned for several emails, the first of them answered
\* NONE
C4_Witness ==
    /\ pc = "classified" /\ Len(email_info) >= 2
    /\ classifications[1][2] = NONE
    /\ classifications[2][2] # NONE

\* the caller gave a value for exactly one of date_from and date_to
ExactlyOneDate(a) ==
    \/ (HasValue(a.date_from) /\ ~HasValue(a.date_to))
    \/ (~HasValue(a.date_from) /\ HasValue(a.date_to))

\* C5: when exactly one of date_from and date_to is given (not None), the
\* constructor raises ValueError whatever days_old is, and no mailbox call
\* has been made.
C5_OneDateRaises ==
    (pc # "new" /\ ExactlyOneDate(input))
    => (pc = "raised" /\ raised = "ValueError" /\ calls = <<>> /\ email_info = <<>>)

\* the constructor raised for a namespace with a date_to, no date_from
\* attribute and days_old None
C5_Witness ==
    /\ pc = "raised"
    /\ HasValue(input.date_to) /\ ~HasAttr(input.date_from) /\ input.days_old = None

\* C6: when days_old is given (0 included) together with a date_from or a
\* date_to, the constructor raises ValueError and the run never starts.
C6_DaysOldWithDateRaises ==
    (/\ pc # "new" /\ HasValue(input.days_old)
     /\ (HasValue(input.date_from) \/ HasValue(input.date_to)))
    => (pc = "raised" /\ raised = "ValueError")

\* the constructor raised for days_old 0 given with both dates
C6_Witness ==
    /\ pc = "raised" /\ input.days_old = Val(0)
    /\ HasValue(input.date_from) /\ HasValue(input.date_to)

\* the two date modes of resolved args
DateRange(a) ==
    HasValue(a.date_from) /\ HasValue(a.date_to) /\ ~HasValue(a.days_old)

LookbackDays(a) ==
    HasValue(a.days_old) /\ ~HasValue(a.date_from) /\ ~HasValue(a.date_to)

\* C7: whenever _validate_date_arguments returns, the resolved args select
\* exactly one date mode: both dates and no days_old, or a days_old and no
\* date; the days_old is the config default when the caller gave none.
C7_ExactlyOneDateMode ==
    (pc # "new" /\ calls # <<>>)
    => /\ DateRange(args) \/ LookbackDays(args)
       /\ ~(DateRange(args) /\ LookbackDays(args))
       /\ (LookbackDays(args) /\ ~HasValue(input.days_old))
            => args.days_old = Val(config.days_old)

\* the constructor got past _initialize_args and the authentication for a
\* caller that gave no date and no days_old
C7_Witness ==
    /\ pc = "raised" /\ raised = "TypeError" /\ LookbackDays(args)
    /\ input.days_old = None /\ ~HasAttr(input.date_from) /\ input.date_to = None

\* C9: summarize_emails never raises, and once it has returned the batch is
\* the batch it was given, in its order: the emails whose model call or
\* parsing failed carry the sentinel summary and the others their parsed
\* summary, so that its caller goes on with every email of the batch.
C9_SummaryFailureIsolated ==
    /\ CallsWhere(IsSummaryCall) # <<>> => pc \in {"summarize", "summarized"}
    /\ pc = "summarized"
       => /\ Len(email_info) = Len(mailMsgs)
          /\ Len(sum_outcomes) = Len(email_info)
          /\ \A i \in 1..Len(email_info) :
               /\ email_info[i].id = mailMsgs[i].id
               /\ email_info[i].summary =
                     IF sum_outcomes[i].kind = "ok"
                     THEN sum_outcomes[i].parsed
                     ELSE ErrorSummary

\* summarize_emails returned a batch in which the model call failed for the
\* first email and the second was summarized
C9_Witness ==
    /\ pc = "summarized" /\ Len(email_info) = 2
    /\ sum_outcomes[1].kind = "invoke_error" /\ sum_outcomes[2].kind = "ok"
    /\ email_info[1].summary = ErrorSummary /\ email_info[2].summary # ErrorSummary
\* C10: an apply_label call one of whose mailbox calls (label listing,
\* creation, attachment) failed returned False.
C10_ApplyFailureIsolated ==
    (pc = "client" /\ lastApply.n > 0
       /\ \E i \in 1..Len(lastApply.calls) : ~lastApply.calls[i].ok)
    => lastApply.result = FALSE

\* C11: when the model call of classification failed for one email, that
\* failure is absorbed by classify_emails and the remaining emails are still
\* classified: classify_emails does not raise, and when it has ended the
\* model has been asked about every email of the batch.
C11_ClassifyFailureIsolated ==
    (\E i \in 1..Len(calls) : IsClassifyCall(calls[i]) /\ ~calls[i].ok)
    => /\ pc # "raised"
       /\ pc = "classified"
            => \A k \in 1..Len(email_info) :
                  \E i \in 1..Len(calls) :
                     IsClassifyCall(calls[i]) /\ calls[i].target = email_info[k].id
\* C12: a constructor that raised a configuration error (a date-flag
\* conflict or an unknown model selection, both ValueError) raised it before
\* any network call: no mailbox authentication, no list or get call and no
\* model invocation has been made.
C12_ConfigErrorBeforeNetwork ==
    (pc = "raised" /\ raised = "ValueError") => calls = <<>>

\* the model the run uses when the caller selected `x`
Selected(x) == IF x \in {None, Val("")} THEN config.llm_model ELSE x.v

\* the pair of the default provider and `model` is registered
InRegistry(model) ==
    \E p \in DOMAIN config.llm_providers :
       p = config.llm_provider /\ model \in config.llm_providers[p]

\* the constructor got past date validation and authentication
ModelsExamined ==
    /\ pc = "raised"
    /\ \E i \in 1..Len(calls) : calls[i].op = "authenticate" /\ calls[i].ok

\* C13 as stated: in both content modes, construction fails with an error
\* naming the invalid pair exactly when the classification pair or the
\* summarization pair is not registered.
C13_BothPairsValidated ==
    ModelsExamined
    => LET bad == {m \in {Selected(input.classify_model), Selected(input.summary_model)} :
                      ~InRegistry(m)}
       IN IF bad = {}
          THEN raised = "none"
          ELSE /\ raised = "ValueError"
               /\ raised_for.provider = config.llm_provider
               /\ raised_for.model \in bad

\* the labels of the mailbox whose type is "user"
MailboxUserLabels == SelectSeq(mailLabels, LAMBDA l : l.type = "user")

\* the configured fallback names as labels without a provider id
Placeholders ==
    [i \in 1..Len(config.email_labels) |->
        [id |-> NoneId, name |-> config.email_labels[i], type |-> "user"]]

\* the label set the mailbox and the configured fallback determine
Resolvable ==
    IF MailboxUserLabels # <<>> THEN MailboxUserLabels
    ELSE IF config.email_labels # <<>> THEN Placeholders
    ELSE <<>>

\* C17: list_labels does not raise and returns the user labels of the
\* mailbox when it has at least one, otherwise the configured fallback names
\* with a null id and type "user", otherwise the empty list; no system label
\* is in the result.
C17_ListLabelsCases ==
    /\ CallsWhere(IsListLabels) # <<>> => pc # "raised"
    /\ pc = "listed"
       => /\ all_labels = Resolvable
          /\ \A i \in 1..Len(all_labels) : all_labels[i].type = "user"

\* the last apply_label call saw, in the label set its listing returned, a
\* label of the suggested name (up to case) with a provider id
SeenWithId ==
    /\ lastApply.calls[1].ok
    /\ Existing(lastApply.before, lastApply.label_name) # {}

\* C18: an apply_label call for a name that is not NONE, when the label set
\* it listed holds a label of that name (up to case) with a provider id,
\* makes one modifyMessage call with that id and no createLabel call;
\* otherwise (no label of that name, or only a placeholder without id) it
\* makes one createLabel call with the suggested name and then, creation
\* having returned an id, one modifyMessage call with that id (and no
\* modifyMessage call when creation returned none).
C18_FindOrCreateThenModify ==
    (lastApply.n > 0 /\ ~IsNoLabel(lastApply.label_name))
    => LET cs == lastApply.calls
           creates == SelectSeq(cs, IsCreate)
           modifies == SelectSeq(cs, IsModify)
       IN /\ IsListLabels(cs[1])
          /\ \A i \in 1..Len(modifies) : modifies[i].target = lastApply.message_id
          /\ IF SeenWithId
             THEN /\ creates = <<>>
                  /\ Len(modifies) = 1
                  /\ modifies[1].id \in
                       {lastApply.before[j].id :
                          j \in Existing(lastApply.before, lastApply.label_name)}
             ELSE /\ Len(creates) = 1
                  /\ IsCreate(cs[2])
                  /\ creates[1].name = lastApply.label_name
                  /\ IF IsCreated(creates[1])
                     THEN /\ Len(modifies) = 1
                          /\ IsModify(cs[3])
                          /\ modifies[1].id = creates[1].id
                     ELSE modifies = <<>>

\* a direct call on a mailbox without user labels whose config names the
\* label: the listed set held only the placeholder without id, so the label
\* was created and attached under the id the creation returned
C18_Witness ==
    /\ pc = "client" /\ lastApply.n > 0
    /\ config.email_labels = <<Wk>>
    /\ SameName(lastApply.label_name, Wk)
    /\ lastApply.calls[1].ok
    /\ Existing(lastApply.before, lastApply.label_name) = {}
    /\ Len(lastApply.calls) = 3
    /\ IsCreated(lastApply.calls[2])
    /\ IsModify(lastApply.calls[3])
    /\ lastApply.calls[3].id = lastApply.calls[2].id

\* the decimal digits, and numbers written with two and with four of them
Digits == <<"0", "1", "2", "3", "4", "5", "6", "7", "8", "9">>
D2(n) == Digits[(n \div 10) + 1] \o Digits[(n % 10) + 1]
D4(n) == D2(n \div 100) \o D2(n % 100)

\* the texts of the form YYYY/MM/DD for the first months of 2024
SlashDates == {D4(2024) \o "/" \o D2(m) \o "/" \o D2(d) : m \in 1..3, d \in 1..31}

\* C19: the filter query of every list call is "is:unread" followed by
\* " after:<date> before:<date>" in range mode or by " after:<date>" in
\* lookback mode, and every date in it has the form YYYY/MM/DD.
C19_QueryDatesSlashFormatted ==
    \A i \in 1..Len(calls) :
       calls[i].op = "listMessages"
       => /\ calls[i].target = "range"
               => \E x \in SlashDates, y \in SlashDates :
                     calls[i].id = "is:unread after:" \o x \o " before:" \o y
          /\ calls[i].target = "lookback"
               => \E x \in SlashDates : calls[i].id = "is:unread after:" \o x

RECURSIVE NodesOf(_)
\* the parts of a payload in traversal order, the payload itself first
NodesOf(part) ==
    LET Sub[k \in 0..Len(part.parts)] ==
          IF k = 0 THEN <<>> ELSE Sub[k - 1] \o NodesOf(part.parts[k])
    IN <<part>> \o Sub[Len(part.parts)]

\* the parts of media type `mimetype`, and those of them that are leaves
NodesOfType(payload, mimetype) ==
    SelectSeq(NodesOf(payload), LAMBDA q : q.mimeType = mimetype)
LeavesOfType(payload, mimetype) ==
    SelectSeq(NodesOfType(payload, mimetype), LAMBDA q : q.parts = <<>>)

\* the text a body decodes to
TextOf(part) == IF part.data \in {NoData, BadData} THEN "" ELSE part.data[2]

\* the texts of `parts` joined with a single space
JoinSpace(parts) ==
    LET J[k \in 1..Len(parts)] ==
          IF k = 1 THEN TextOf(parts[1]) ELSE J[k - 1] \o " " \o TextOf(parts[k])
    IN J[Len(parts)]

\* get_message_content returned the content of the message in full-content
\* mode
FullContentFetched ==
    pc = "content_done" /\ args.use_full_content.v /\ email_info # <<>>

\* C20 as stated: in full-content mode the content is the decoded text of
\* all plain-text leaves joined with a single space in traversal order when
\* there is one, otherwise the conversion of the first HTML part, otherwise
\* the snippet.
C20_AllPlainLeavesJoined ==
    FullContentFetched
    => LET payload == mailMsgs[1].payload
           plains == LeavesOfType(payload, "text/plain")
           htmls == NodesOfType(payload, "text/html")
       IN email_info[1].content =
            IF plains # <<>> THEN JoinSpace(plains)
            ELSE IF htmls # <<>> THEN Html2Text(TextOf(htmls[1]))
            ELSE mailMsgs[1].snippet

\* C20, amended: in full-content mode the content is the decoded text of the
\* first plain-text part in traversal order alone when there is one,
\* otherwise the conversion of the first HTML part, otherwise the decoded
\* body of the payload itself when it carries data, otherwise the snippet.
C20_FirstPlainPart ==
    FullContentFetched
    => LET payload == mailMsgs[1].payload
           plains == NodesOfType(payload, "text/plain")
           htmls == NodesOfType(payload, "text/html")
       IN email_info[1].content =
            IF plains # <<>> THEN TextOf(plains[1])
            ELSE IF htmls # <<>> THEN Html2Text(TextOf(htmls[1]))
            ELSE IF payload.data # NoData THEN TextOf(payload)
            ELSE mailMsgs[1].snippet

\* a message whose payload nests the plain part "a" beside an HTML part and
\* has a second plain part "b" after them: the content is "a"
C20_Witness ==
    /\ FullContentFetched
    /\ mailMsgs[1].payload =
         Multi(<<Multi(<<Leaf("text/plain", "a"), Leaf("text/html", "h")>>),
                 Leaf("text/plain", "b")>>)
    /\ email_info[1].content = "a"

\* the value resolution must leave in a flag the caller gave as `x`
KeptOrDefault(x, default) == IF x \in {Absent, None} THEN Val(default) ELSE x

\* C21: after configuration resolution max_emails and each boolean flag
\* hold the caller's value when it is present and not null, 0 and False
\* included, and the static default otherwise.
C21_CallerValueWins ==
    pc # "new"
    => /\ args.max_emails = KeptOrDefault(input.max_emails, config.max_emails)
       /\ args.dry_run = KeptOrDefault(input.dry_run, config.dry_run)
       /\ args.use_full_content = KeptOrDefault(input.use_full_content, config.use_full_content)
       /\ args.print = KeptOrDefault(input.print, config.print_output)
       /\ args.save_steps = KeptOrDefault(input.save_steps, config.save_steps)

IsGet(c) == c.op = "getMessage"

\* C22: when the list call succeeded, one get call was made for each listed
\* message in list order, and email_info holds exactly the messages whose
\* get call succeeded, with the ids of the list result and in its order; a
\* failed get call raises nothing, and fetch_emails returns the retained
\* records to its caller.
C22_FetchFailureDropsOne ==
    (\E i \in 1..Len(calls) : calls[i].op = "listMessages" /\ calls[i].ok)
    => LET gets == CallsWhere(IsGet)
           kept == CallsWhere(IsGetOk)
       IN /\ pc = "fetched"
          /\ Len(gets) = IF Len(mailMsgs) < args.max_emails.v
                         THEN Len(mailMsgs) ELSE args.max_emails.v
          /\ \A i \in 1..Len(gets) : gets[i].target = mailMsgs[i].id
          /\ Len(email_info) = Len(kept)
          /\ \A i \in 1..Len(kept) : email_info[i].id = kept[i].target

\* of two listed messages the first could not be fetched: fetch_emails
\* returned the second alone
C22_Witness ==
    /\ pc = "fetched" /\ Len(mailMsgs) = 2
    /\ \E i \in 1..Len(calls) : IsGet(calls[i]) /\ calls[i].target = "m1" /\ ~calls[i].ok
    /\ Len(email_info) = 1 /\ email_info[1].id = "m2"

\* C23: the parser rejects no combination of the date flags: every command
\* line, a --date-from/--date-to pair included, is parsed and its three date
\* flags reach EmailClassifier as given (None when not given).
C23_ParserPassesDateFlags ==
    pc # "cli"
    => /\ pc # "usage_error"
       /\ pc = "new"
            => \A f \in {"days_old", "date_from", "date_to"} :
                  args[f] = IF input[f] = Absent THEN None ELSE input[f]

---------------------------------------------------------------------------
(* C25 *)

\* the createLabel calls made so far
CreateCalls == CallsWhere(IsCreate)

\* the suggested name matches a configured placeholder and no user label
\* of the mailbox
MatchesPlaceholderOnly(labels, cfg, name) ==
    /\ SelectSeq(labels, LAMBDA l : l.type = "user") = <<>>
    /\ \E i \in 1..Len(cfg.email_labels) : SameName(cfg.email_labels[i], name)

\* C25: in the GmailLabels.update_labels path a batch never calls
\* createLabel twice for one name, and a suggested label that matches only
\* a configured placeholder is created and then attached (its createLabel
\* call comes first and its modify call follows) rather than failing
C25_BatchCreatesOnceAndPlaceholderAttached ==
    /\ \A i, j \in 1..Len(CreateCalls) :
          i < j => ~SameName(CreateCalls[i].name, CreateCalls[j].name)
    /\ (/\ pc \in {"updating", "batch_done"}
        /\ lastApply.n > 0
        /\ calls[1].ok
        /\ MatchesPlaceholderOnly(lastApply.before, config, lastApply.label_name))
       => /\ lastApply.calls # <<>>
          /\ IsCreate(lastApply.calls[1])
          /\ (lastApply.calls[1].ok /\ lastApply.calls[1].id # ""
              => Len(lastApply.calls) = 2 /\ IsModify(lastApply.calls[2]))

---------------------------------------------------------------------------
(* C26 *)

\* C26: whatever the outcomes of the mailbox calls, the listing included,
\* no apply_label call invokes createLabel with a name that equals, up to
\* case, the name of a user label the mailbox holds with a provider id at
\* the time of the call.
C26_NeverCreatesExistingName ==
    lastApply.n > 0
    => \A i \in 1..Len(lastApply.calls) :
         IsCreate(lastApply.calls[i])
         => Existing(lastApply.before, lastApply.calls[i].name) = {}

---------------------------------------------------------------------------
(* C27 *)

\* the list calls of fetch_emails made so far
ListCalls == CallsWhere(LAMBDA c : c.op = "listMessages")

\* C27: for every resolved plan that passed validation, fetch_emails builds
\* a query that agrees with the resolved date mode: it carries the
\* 'after: before:' bounds of the plan exactly when the plan is a date
\* range, and a lookback 'after:' bound computed from a non-null days_old
\* exactly when the plan is a lookback; it never computes a lookback date
\* from a null days_old, so fetching always gets as far as its list call.
C27_QueryAgreesWithDateMode ==
    pc \in {"fetched", "raised"}
    => /\ Len(ListCalls) = 1
       /\ LET q == ListCalls[1]
          IN /\ q.target = "range" <=> DateRange(args)
             /\ q.target = "lookback" <=> LookbackDays(args)
             /\ DateRange(args)
                  => q.id = "is:unread after:" \o args.date_from.v
                              \o " before:" \o args.date_to.v
             /\ q.target = "lookback" => HasValue(args.days_old)

====
